---- MODULE Spec2Model ----
(***************************************************************************)
(* CustomVec<T>: the growable buffer of                                    *)
(* src/03_ownership_borrowing/solutions/ex3_custom_vector/main.rs, with    *)
(* the global allocator it calls (alloc / realloc / dealloc) and the       *)
(* memory the raw pointer reaches.  T is a sized type (i32 and String in   *)
(* main); the address space is scaled down to UsizeBits bits.              *)
(***************************************************************************)
EXTENDS Integers, Sequences, FiniteSets, TLC

\* ------------------------------------------------------------- bounds
UsizeBits == 5
MaxPushes == 3
MaxBlocks == 3
MaxCapArg == 2

\* ------------------------------------------------------------- machine
USIZE_MOD == 2 ^ UsizeBits
USIZE_MAX == USIZE_MOD - 1
ISIZE_MAX == 2 ^ (UsizeBits - 1) - 1

\* size_of::<T>() of the instantiations; align_of::<T>() equals the size here
ElemSizes == {1, 4}

NULL == 0
DANGLING == -1
Blocks == 1..MaxBlocks

\* arguments tried for with_capacity and for get / get_mut
CapArgs == (0..MaxCapArg) \cup {USIZE_MAX}
Indices == 0..MaxPushes

\* ------------------------------------------------------------- memory cells
Uninit == [k |-> "uninit", id |-> 0, v |-> 0]
Garbage == [k |-> "garbage", id |-> 0, v |-> 0]
Fault == [k |-> "fault", id |-> 0, v |-> 0]
None == [k |-> "none", id |-> 0, v |-> 0]
Val(i, m) == [k |-> "val", id |-> i, v |-> m]

UninitSlots(n) == [i \in 1..n |-> Uninit]

\* the cells behind a null pointer a run can reach: one per push
NullSlots == MaxPushes

VARIABLES
    status,     \* "none" | "live" | "dropped" | "panicked" | "aborted"
    ctor,       \* "none" | "new" | "with_capacity"
    elemSize,   \* size_of::<T>()
    ptr,        \* CustomVec.ptr: DANGLING, NULL or a block
    len,        \* CustomVec.len
    capacity,   \* CustomVec.capacity
    heap,       \* the allocator's blocks
    nullmem,    \* what a run has stored through a null pointer
    nextId,     \* identity of the next value handed to push
    pushed,     \* values whose push returned
    moved,      \* values pop handed to the caller
    drops,      \* how often the buffer's destructor dropped each value
    last,       \* the last call and what it returned
    phase,      \* "pushing" | "popping" | "other"
    popSeq,     \* what the pops of the popping phase returned
    abs,        \* the sequence the calls so far describe: append, remove last, write at index
    work        \* growth steps of a run of pushes from new(), and the elements
                \* they moved to another block; void once that run has ended

vars == <<status, ctor, elemSize, ptr, len, capacity, heap, nullmem, nextId,
          pushed, moved, drops, last, phase, popSeq, abs, work>>

NoCall == [op |-> "none", arg |-> 0, outcome |-> "ok", ret |-> None, num |-> 0,
           calls |-> <<>>, grew |-> FALSE, dropSeq |-> <<>>, reads |-> {}]

NoWork == [growths |-> 0, relocated |-> 0]

Call(fn, p, old, new, ret) ==
    [fn |-> fn, ptr |-> p, old |-> old, new |-> new, ret |-> ret]

Init ==
    /\ status = "none"
    /\ ctor = "none"
    /\ elemSize \in ElemSizes
    /\ ptr = DANGLING
    /\ len = 0
    /\ capacity = 0
    /\ heap = [b \in Blocks |-> [st |-> "unused", size |-> 0, data |-> <<>>, rel |-> 0]]
    /\ nullmem = UninitSlots(NullSlots)
    /\ nextId = 1
    /\ pushed = {}
    /\ moved = {}
    /\ drops = [i \in 0..MaxPushes |-> 0]
    /\ last = NoCall
    /\ phase = "pushing"
    /\ popSeq = <<>>
    /\ abs = <<>>
    /\ work = NoWork

\* ------------------------------------------------------------- Layout
\* a layout computed without the overflow check
LayoutArrayUnchecked(n) == TRUE

\* Layout::array::<T>(n) is Ok iff n <= (isize::MAX + 1 - align) / size
LayoutArrayOk(n) == n <= (ISIZE_MAX + 1 - elemSize) \div elemSize

LayoutSize(n) == n * elemSize

\* ------------------------------------------------------------- allocator
FreshBlocks == {b \in Blocks : heap[b].st = "unused"}
NextBlock == CHOOSE b \in FreshBlocks : \A c \in FreshBlocks : b <= c

\* alloc::alloc(layout): null, or a block nobody else holds, contents
\* uninitialised.  A zero-sized request is undefined; the system allocator
\* answers it with null or with a block of no slots.
AllocOutcomes(size) ==
    {[ret |-> NULL, heap |-> heap]} \cup
    (IF FreshBlocks = {} THEN {} ELSE
       {[ret |-> NextBlock,
         heap |-> [heap EXCEPT ![NextBlock] =
                     [st |-> "live", size |-> size,
                      data |-> UninitSlots(size \div elemSize), rel |-> 0]]]})

\* a realloc that moves the block without copying the old bytes
ReallocOutcomesNoCopy(p, newSize) ==
    IF p = NULL THEN AllocOutcomes(newSize)
    ELSE
      {[ret |-> NULL, heap |-> heap]} \cup
      {[ret |-> p,
        heap |-> [heap EXCEPT ![p].size = newSize,
                              ![p].data = heap[p].data \o
                                 UninitSlots((newSize \div elemSize) - Len(heap[p].data))]]} \cup
      (IF FreshBlocks = {} THEN {} ELSE
         {[ret |-> NextBlock,
           heap |-> [heap EXCEPT
                       ![NextBlock] =
                          [st |-> "live", size |-> newSize,
                           data |-> UninitSlots(newSize \div elemSize),
                           rel |-> 0],
                       ![p] = [st |-> "freed", size |-> 0, data |-> <<>>,
                               rel |-> heap[p].rel + 1]]]})

\* alloc::realloc(p, old_layout, new_size): null with the old block kept, the
\* same block extended, or a new block holding the old bytes with the old
\* block released.  realloc of a null pointer is the allocator's malloc.
ReallocOutcomes(p, newSize) ==
    IF p = NULL THEN AllocOutcomes(newSize)
    ELSE
      {[ret |-> NULL, heap |-> heap]} \cup
      {[ret |-> p,
        heap |-> [heap EXCEPT ![p].size = newSize,
                              ![p].data = heap[p].data \o
                                 UninitSlots((newSize \div elemSize) - Len(heap[p].data))]]} \cup
      (IF FreshBlocks = {} THEN {} ELSE
         {[ret |-> NextBlock,
           heap |-> [heap EXCEPT
                       ![NextBlock] =
                          [st |-> "live", size |-> newSize,
                           data |-> heap[p].data \o
                              UninitSlots((newSize \div elemSize) - Len(heap[p].data)),
                           rel |-> 0],
                       ![p] = [st |-> "freed", size |-> 0, data |-> <<>>,
                               rel |-> heap[p].rel + 1]]]})

\* alloc::dealloc(p, layout): free(NULL) does nothing
Dealloc(h, p) ==
    IF p = NULL THEN h
    ELSE [h EXCEPT ![p] = [st |-> "freed", size |-> 0, data |-> <<>>,
                           rel |-> h[p].rel + 1]]

\* ------------------------------------------------------------- raw memory
\* the cell ptr.add(i) addresses
\* (memory outside every block holds nothing the program stored)
RawCell(h, nm, p, i) ==
    IF p = NULL
    THEN IF i + 1 \in DOMAIN nm THEN nm[i + 1] ELSE Uninit
    ELSE IF p \in Blocks /\ i + 1 \in DOMAIN h[p].data THEN h[p].data[i + 1] ELSE Uninit

\* ptr::read(p.add(i)) / a read through &*p.add(i): an initialised cell reads
\* as itself; an uninitialised cell of a block reads as garbage; memory
\* behind a null pointer that was never stored to faults or reads as garbage
ReadOutcomes(h, nm, p, i) ==
    IF RawCell(h, nm, p, i).k # "uninit" THEN {RawCell(h, nm, p, i)}
    ELSE IF p = NULL THEN {Fault, Garbage}
    ELSE {Garbage}

\* ptr::write(p.add(i), c) / a store through &mut *p.add(i): a store through
\* a null pointer faults or lands in whatever is mapped there
WriteOutcomes(h, nm, p, i, c) ==
    IF p = NULL
    THEN {[fault |-> TRUE, heap |-> h, nm |-> nm],
          [fault |-> FALSE, heap |-> h, nm |-> [nm EXCEPT ![i + 1] = c]]}
    ELSE IF p \in Blocks
    THEN {[fault |-> FALSE, heap |-> [h EXCEPT ![p].data[i + 1] = c], nm |-> nm]}
    ELSE {[fault |-> FALSE, heap |-> h, nm |-> nm]}

Min(a, b) == IF a < b THEN a ELSE b

\* ------------------------------------------------------------- CustomVec::new
\* a constructor that reserves the first slot at once
NewAllocating ==
    /\ status = "none"
    /\ \E a \in AllocOutcomes(LayoutSize(1)) :
         /\ status' = "live"
         /\ ctor' = "new"
         /\ ptr' = a.ret
         /\ len' = 0
         /\ capacity' = 1
         /\ heap' = a.heap
         /\ last' = [NoCall EXCEPT !.op = "new",
                       !.calls = <<Call("alloc", NULL, 0, LayoutSize(1), a.ret)>>]
    /\ UNCHANGED <<elemSize, nullmem, nextId, pushed, moved, drops, phase, popSeq, abs, work>>

New ==
    /\ status = "none"
    /\ status' = "live"
    /\ ctor' = "new"
    /\ ptr' = DANGLING
    /\ len' = 0
    /\ capacity' = 0
    /\ last' = [NoCall EXCEPT !.op = "new"]
    /\ UNCHANGED <<elemSize, heap, nullmem, nextId, pushed, moved, drops, phase, popSeq, abs, work>>

\* ------------------------------------------------------------- CustomVec::with_capacity
\* Layout::array::<T>(capacity).unwrap() panics on overflow; the pointer
\* alloc returns goes unchecked into NonNull::new_unchecked
WithCapacity ==
    /\ status = "none"
    /\ \E n \in CapArgs :
         IF ~LayoutArrayOk(n)
         THEN /\ status' = "panicked"
              /\ last' = [NoCall EXCEPT !.op = "with_capacity", !.arg = n,
                                        !.outcome = "panic"]
              /\ UNCHANGED <<ctor, ptr, len, capacity, heap>>
         ELSE \E a \in AllocOutcomes(LayoutSize(n)) :
              /\ status' = "live"
              /\ ctor' = "with_capacity"
              /\ ptr' = a.ret
              /\ len' = 0
              /\ capacity' = n
              /\ heap' = a.heap
              /\ last' = [NoCall EXCEPT !.op = "with_capacity", !.arg = n,
                            !.calls = <<Call("alloc", NULL, 0, LayoutSize(n), a.ret)>>]
    /\ UNCHANGED <<elemSize, nullmem, nextId, pushed, moved, drops, phase, popSeq, abs, work>>

\* ------------------------------------------------------------- CustomVec::grow
\* doubling without the case of an empty buffer
NewCapacityDoubleOnly(c) == (c * 2) % USIZE_MOD

\* growth by one slot instead of doubling
NewCapacityPlusOne(c) == IF c = 0 THEN 1 ELSE (c + 1) % USIZE_MOD

\* growth by a factor of four
NewCapacityQuadruple(c) == IF c = 0 THEN 1 ELSE (c * 4) % USIZE_MOD

\* if self.capacity == 0 { 1 } else { self.capacity * 2 }
NewCapacity(c) == IF c = 0 THEN 1 ELSE (c * 2) % USIZE_MOD

\* alloc for the first block, realloc of self.ptr afterwards
GrowOutcomes(p, c) ==
    IF c = 0
    THEN {[ret |-> a.ret, heap |-> a.heap,
           calls |-> <<Call("alloc", NULL, 0, LayoutSize(NewCapacity(c)), a.ret)>>] :
            a \in AllocOutcomes(LayoutSize(NewCapacity(c)))}
    ELSE {[ret |-> a.ret, heap |-> a.heap,
           calls |-> <<Call("realloc", p, LayoutSize(c), LayoutSize(NewCapacity(c)), a.ret)>>] :
            a \in ReallocOutcomes(p, LayoutSize(NewCapacity(c)))}

\* ------------------------------------------------------------- CustomVec::push
\* growth one push before the buffer is full
NeedsGrowEarly(l, c) == l + 1 >= c

\* growth only once length has passed capacity
NeedsGrowTooLate(l, c) == l > c

\* if self.len == self.capacity
NeedsGrow(l, c) == l = c

PushPhase == IF phase = "pushing" THEN "pushing" ELSE "other"

\* the elements realloc copies when it answers with a different block: the
\* old block was full, so all len of them
Relocated(old, new) ==
    IF old \in Blocks /\ new \in Blocks /\ new # old THEN len ELSE 0

\* the slots realloc copies out of the old block: all of its capacity
GrowReads(grew) == IF grew /\ capacity # 0 THEN 0..(capacity - 1) ELSE {}

\* ptr::write(self.ptr.as_ptr().add(self.len), value); self.len += 1
PushWrite(p, c, h, calls, grew) ==
    \E w \in WriteOutcomes(h, nullmem, p, len, Val(nextId, 0)) :
       /\ ptr' = p
       /\ capacity' = c
       /\ heap' = w.heap
       /\ nullmem' = w.nm
       /\ work' = IF ctor # "new" \/ phase # "pushing" THEN NoWork
                  ELSE IF grew
                  THEN [growths |-> work.growths + 1,
                        relocated |-> work.relocated + Relocated(ptr, p)]
                  ELSE work
       /\ IF w.fault
          THEN /\ status' = "aborted"
               /\ len' = len
               /\ pushed' = pushed
               /\ abs' = abs
               /\ phase' = "other"
               /\ last' = [NoCall EXCEPT !.op = "push", !.arg = nextId,
                             !.outcome = "segv", !.calls = calls, !.grew = grew,
                             !.reads = GrowReads(grew)]
          ELSE /\ status' = status
               /\ len' = (len + 1) % USIZE_MOD
               /\ pushed' = pushed \cup {nextId}
               /\ abs' = Append(abs, Val(nextId, 0))
               /\ phase' = PushPhase
               /\ last' = [NoCall EXCEPT !.op = "push", !.arg = nextId,
                             !.calls = calls, !.grew = grew,
                             !.reads = GrowReads(grew)]

Push ==
    /\ status = "live"
    /\ nextId <= MaxPushes
    /\ nextId' = nextId + 1
    /\ IF NeedsGrow(len, capacity)
       THEN IF ~LayoutArrayOk(NewCapacity(capacity))
            THEN \* Layout::array(new_capacity).unwrap() panics inside grow
                 /\ last' = [NoCall EXCEPT !.op = "push", !.arg = nextId,
                               !.outcome = "panic"]
                 /\ phase' = "other"
                 /\ work' = NoWork
                 /\ UNCHANGED <<status, ptr, len, capacity, heap, nullmem, pushed, abs>>
            ELSE \E g \in GrowOutcomes(ptr, capacity) :
                    PushWrite(g.ret, NewCapacity(capacity), g.heap, g.calls, TRUE)
       ELSE PushWrite(ptr, capacity, heap, <<>>, FALSE)
    /\ popSeq' = <<>>
    /\ UNCHANGED <<ctor, elemSize, moved, drops>>

\* ------------------------------------------------------------- CustomVec::pop
\* emptiness decided by the allocation instead of the length alone
IsEmptyWhenUnallocated(l) == l = 0 /\ capacity = 0

\* if self.len == 0
IsEmpty(l) == l = 0

\* a pop counts for the popping phase while pops are owed for the pushes
PopCounts == phase \in {"pushing", "popping"} /\ Len(popSeq) < Cardinality(pushed)

Pop ==
    /\ status = "live"
    /\ IF IsEmpty(len)
       THEN /\ last' = [NoCall EXCEPT !.op = "pop"]
            /\ phase' = "other"
            /\ popSeq' = <<>>
            /\ UNCHANGED <<status, len, moved>>
       ELSE /\ len' = (len - 1) % USIZE_MOD
            /\ \E r \in ReadOutcomes(heap, nullmem, ptr, (len - 1) % USIZE_MOD) :
                 IF r = Fault
                 THEN /\ status' = "aborted"
                      /\ last' = [NoCall EXCEPT !.op = "pop", !.outcome = "segv",
                                                !.reads = {(len - 1) % USIZE_MOD}]
                      /\ phase' = "other"
                      /\ popSeq' = <<>>
                      /\ moved' = moved
                 ELSE /\ status' = status
                      /\ last' = [NoCall EXCEPT !.op = "pop", !.ret = r,
                                                !.reads = {(len - 1) % USIZE_MOD}]
                      /\ phase' = IF PopCounts THEN "popping" ELSE "other"
                      /\ popSeq' = IF PopCounts THEN Append(popSeq, r) ELSE <<>>
                      /\ moved' = IF r.k = "val" THEN moved \cup {r.id} ELSE moved
    /\ abs' = IF abs = <<>> THEN abs ELSE SubSeq(abs, 1, Len(abs) - 1)
    /\ work' = NoWork
    /\ UNCHANGED <<ctor, elemSize, ptr, capacity, heap, nullmem, nextId, pushed, drops>>

\* ------------------------------------------------------------- CustomVec::get
\* a bounds test that lets index == len through
OutOfRangeOffByOne(index, l) == index > l

\* if index >= self.len { None }
OutOfRange(index, l) == index >= l

Get ==
    /\ status = "live"
    /\ \E index \in Indices :
         IF OutOfRange(index, len)
         THEN /\ last' = [NoCall EXCEPT !.op = "get", !.arg = index]
              /\ status' = status
         ELSE \E r \in ReadOutcomes(heap, nullmem, ptr, index) :
                IF r = Fault
                THEN /\ status' = "aborted"
                     /\ last' = [NoCall EXCEPT !.op = "get", !.arg = index,
                                               !.outcome = "segv", !.reads = {index}]
                ELSE /\ status' = status
                     /\ last' = [NoCall EXCEPT !.op = "get", !.arg = index, !.ret = r,
                                               !.reads = {index}]
    /\ UNCHANGED <<ctor, elemSize, ptr, len, capacity, heap, nullmem, nextId,
                   pushed, moved, drops, phase, popSeq, abs, work>>

\* ------------------------------------------------------------- CustomVec::get_mut
\* what the caller's store through the &mut T leaves in the cell
Mutated(c) == IF c.k = "val" THEN Val(c.id, 1) ELSE Garbage

\* get_mut(index) and, as main does, a store through the reference it returns
GetMut ==
    /\ status = "live"
    /\ \E index \in Indices :
         IF OutOfRange(index, len)
         THEN /\ last' = [NoCall EXCEPT !.op = "get_mut", !.arg = index]
              /\ UNCHANGED <<status, heap, nullmem, abs>>
         ELSE \E w \in WriteOutcomes(heap, nullmem, ptr, index,
                                     Mutated(RawCell(heap, nullmem, ptr, index))) :
                /\ heap' = w.heap
                /\ nullmem' = w.nm
                /\ abs' = IF index + 1 \in DOMAIN abs
                           THEN [abs EXCEPT ![index + 1] = Mutated(@)] ELSE abs
                /\ IF w.fault
                   THEN /\ status' = "aborted"
                        /\ last' = [NoCall EXCEPT !.op = "get_mut", !.arg = index,
                                                  !.outcome = "segv", !.reads = {index}]
                   ELSE /\ status' = status
                        /\ last' = [NoCall EXCEPT !.op = "get_mut", !.arg = index,
                                      !.reads = {index},
                                      !.ret = Mutated(RawCell(heap, nullmem, ptr, index))]
    /\ phase' = "other"
    /\ popSeq' = <<>>
    /\ work' = NoWork
    /\ UNCHANGED <<ctor, elemSize, ptr, len, capacity, nextId, pushed, moved, drops>>

\* ------------------------------------------------------------- Drop for CustomVec
\* the cells `while self.pop().is_some() {}` reads, from slot len-1 down to
\* slot f+1, in that order
PoppedCells(f) ==
    [j \in 1..(len - 1 - f) |->
        IF RawCell(heap, nullmem, ptr, len - j).k = "uninit"
        THEN Garbage ELSE RawCell(heap, nullmem, ptr, len - j)]

\* each value pop returns is dropped at the end of the loop's condition
DropAll(d, cells) ==
    [i \in DOMAIN d |->
        Min(2, d[i] + Cardinality({j \in 1..Len(cells) : cells[j].id = i}))]

\* the slots whose read can fault
FaultPoints == {i \in 0..(len - 1) : Fault \in ReadOutcomes(heap, nullmem, ptr, i)}

DropVec ==
    /\ status = "live"
    /\ IF capacity # 0
       THEN \E f \in FaultPoints \cup {-1} :
              /\ drops' = DropAll(drops, PoppedCells(f))
              /\ IF f = -1
                 THEN /\ len' = 0
                      /\ heap' = Dealloc(heap, ptr)
                      /\ status' = "dropped"
                      /\ last' = [NoCall EXCEPT !.op = "drop",
                                    !.dropSeq = PoppedCells(f),
                                    !.reads = 0..(len - 1),
                                    !.calls = <<Call("dealloc", ptr, LayoutSize(capacity), 0, NULL)>>]
                 ELSE /\ len' = f
                      /\ heap' = heap
                      /\ status' = "aborted"
                      /\ last' = [NoCall EXCEPT !.op = "drop", !.outcome = "segv",
                                                !.dropSeq = PoppedCells(f),
                                                !.reads = f..(len - 1)]
       ELSE /\ status' = "dropped"
            /\ last' = [NoCall EXCEPT !.op = "drop"]
            /\ UNCHANGED <<len, heap, drops>>
    /\ phase' = "other"
    /\ popSeq' = <<>>
    /\ work' = NoWork
    /\ UNCHANGED <<ctor, elemSize, ptr, capacity, nullmem, nextId, pushed, moved, abs>>

\* ------------------------------------------------------------- CustomVec::len
LenCall ==
    /\ status = "live"
    /\ last' = [NoCall EXCEPT !.op = "len", !.num = len]
    /\ UNCHANGED <<status, ctor, elemSize, ptr, len, capacity, heap, nullmem, nextId,
                   pushed, moved, drops, phase, popSeq, abs, work>>

\* ------------------------------------------------------------- CustomVec::capacity
CapacityCall ==
    /\ status = "live"
    /\ last' = [NoCall EXCEPT !.op = "capacity", !.num = capacity]
    /\ UNCHANGED <<status, ctor, elemSize, ptr, len, capacity, heap, nullmem, nextId,
                   pushed, moved, drops, phase, popSeq, abs, work>>

\* ------------------------------------------------------------- specification
Next ==
    \/ New
    \/ WithCapacity
    \/ Push
    \/ Pop
    \/ Get
    \/ GetMut
    \/ LenCall
    \/ CapacityCall
    \/ DropVec

Spec == Init /\ [][Next]_vars

TypeOK ==
    /\ status \in {"none", "live", "dropped", "panicked", "aborted"}
    /\ len \in 0..USIZE_MAX
    /\ capacity \in 0..USIZE_MAX
    /\ ptr \in Blocks \cup {NULL, DANGLING}

\* ------------------------------------------------------------- properties
RECURSIVE Pow2AtLeast(_, _)
Pow2AtLeast(k, p) == IF p >= k THEN p ELSE Pow2AtLeast(k, 2 * p)

\* what get(i) can hand back in the current state
GetResult(i) ==
    IF i >= len THEN {None} ELSE ReadOutcomes(heap, nullmem, ptr, i)

\* the allocator answered a request of the last call with null
AllocFailed(c) == \E j \in 1..Len(c.calls) :
    c.calls[j].fn \in {"alloc", "realloc"} /\ c.calls[j].ret = NULL

\* n elements of T need more bytes than isize::MAX
Overflows(n) == n * elemSize > ISIZE_MAX

\* C1: after every call on a buffer, length <= capacity
C1_LenWithinCapacity == len <= capacity

C1_Witness ==
    status = "live" /\ last.op = "push" /\ last.grew /\ len = capacity /\ len >= 2

\* C2: N pushes followed by N pops: the pops return the pushed values in
\* reverse order and the buffer is then empty
C2_PopsReversePushes ==
    (phase = "popping" /\ Len(popSeq) = Cardinality(pushed))
        => /\ popSeq = [j \in 1..Cardinality(pushed) |->
                           Val(Cardinality(pushed) + 1 - j, 0)]
           /\ len = 0

\* C3: from new(), after k >= 1 pushes and no pop, capacity is the smallest
\* power of two >= k
C3_CapacityIsPow2 ==
    (ctor = "new" /\ status = "live" /\ phase = "pushing" /\ Cardinality(pushed) >= 1)
        => capacity = Pow2AtLeast(Cardinality(pushed), 1)

C3_Witness ==
    /\ ctor = "new" /\ status = "live" /\ phase = "pushing"
    /\ Cardinality(pushed) = 3 /\ capacity = 4

\* C4: a push that grows, with the allocator extending or moving the block,
\* adds one to length and leaves get(i) as it was for every i below the old
\* length
C4_GrowthKeepsElements ==
    [][(last'.op = "push" /\ last'.grew /\ last'.outcome = "ok" /\ ~AllocFailed(last'))
          => /\ len' = len + 1
             /\ \A i \in 0..(len - 1) : GetResult(i)' = GetResult(i)]_vars

\* C5: pop on an empty buffer returns None and changes neither length,
\* capacity nor the storage
C5_PopEmptyIsNone ==
    [][(status = "live" /\ len = 0 /\ last'.op = "pop")
          => /\ last'.ret = None
             /\ last'.outcome = "ok"
             /\ UNCHANGED <<status, len, capacity, ptr, heap, nullmem>>]_vars

C5_Witness ==
    status = "live" /\ last.op = "pop" /\ last.ret = None /\ len = 0 /\ capacity > 0

\* C6: once the buffer is destroyed, every value pushed and not popped was
\* dropped by it exactly once, and nothing else was dropped
C6_DropExactlyOnce ==
    status = "dropped"
        => /\ \A i \in pushed : drops[i] = IF i \in moved THEN 0 ELSE 1
           /\ \A i \in (DOMAIN drops) \ pushed : drops[i] = 0

\* C7: once the buffer is destroyed, every block it obtained has been
\* released, and none twice
C7_BlocksReleasedOnce ==
    status = "dropped" => \A b \in Blocks : heap[b].st # "live" /\ heap[b].rel <= 1

\* C8: a push whose allocation or reallocation is refused faults and leaves
\* length, capacity and storage as they were
C8_PushFaultsOnAllocFailure ==
    [][(last'.op = "push" /\ AllocFailed(last'))
          => /\ last'.outcome # "ok"
             /\ UNCHANGED <<len, capacity, ptr, heap, nullmem>>]_vars

\* C9: with_capacity(n) whose allocation is refused returns no buffer
C9_WithCapacityFaultsOnAllocFailure ==
    (last.op = "with_capacity" /\ last.arg > 0 /\ AllocFailed(last)) => status # "live"

\* C10: when the byte size overflows, with_capacity returns no buffer and a
\* growing push changes no field, and neither calls the allocator
C10_OverflowFaultsFirst ==
    [][/\ (last'.op = "with_capacity" /\ Overflows(last'.arg))
            => /\ status' = "panicked"
               /\ last'.calls = <<>>
               /\ UNCHANGED <<ptr, len, capacity, heap, nullmem>>
       /\ (status = "live" /\ last'.op = "push" /\ len = capacity
              /\ Overflows(IF capacity = 0 THEN 1 ELSE 2 * capacity))
            => /\ last'.outcome = "panic"
               /\ last'.calls = <<>>
               /\ UNCHANGED <<ptr, len, capacity, heap, nullmem>>]_vars

C10_Witness ==
    status = "live" /\ last.op = "push" /\ last.outcome = "panic" /\ len = capacity /\ len >= 1

\* what the allocator knows of its blocks: which are handed out, their
\* sizes, how often each was released
AllocView(h) == [b \in Blocks |-> [st |-> h[b].st, size |-> h[b].size, rel |-> h[b].rel]]

\* C11: new() returns length 0 and capacity 0 and calls no allocator; a buffer
\* made by new() holds no block before its first push, and pop, get, get_mut,
\* len and capacity on it leave the allocator alone
C11_NewDoesNotAllocate ==
    [][/\ (last'.op = "new")
            => /\ len' = 0 /\ capacity' = 0
               /\ last'.calls = <<>>
               /\ AllocView(heap') = AllocView(heap)
       /\ (ctor' = "new" /\ nextId' = 1)
            => \A b \in Blocks : heap'[b].st = "unused"
       /\ (ctor = "new" /\ last'.op \in {"pop", "get", "get_mut", "len", "capacity"})
            => /\ last'.calls = <<>>
               /\ (heap' = heap \/ AllocView(heap') = AllocView(heap))]_vars

C11_Witness ==
    ctor = "new" /\ status = "live" /\ nextId = 1 /\ last.op = "get_mut"

\* C12: with_capacity(n) returns length 0 and capacity n over one block of
\* exactly n slots, none initialised, and the first n pushes do not grow
C12_WithCapacityReserves ==
    [][/\ (last'.op = "with_capacity" /\ status' = "live")
            => /\ len' = 0
               /\ capacity' = last'.arg
               /\ last'.arg > 0
                    => /\ ptr' \in Blocks
                       /\ heap'[ptr'].st = "live"
                       /\ heap'[ptr'].size = last'.arg * elemSize
                       /\ heap'[ptr'].data = UninitSlots(last'.arg)
                       /\ Cardinality({b \in Blocks : heap'[b].st = "live"}) = 1
       /\ (ctor = "with_capacity" /\ phase = "pushing" /\ last'.op = "push"
              /\ Cardinality(pushed) < capacity)
            => ~last'.grew]_vars

\* C13: between calls the buffer holds a block if and only if capacity > 0,
\* and that block has exactly capacity * size_of::<T>() bytes
C13_AllocationIffCapacity ==
    status = "live"
        => /\ (capacity > 0) <=> (ptr \in Blocks /\ heap[ptr].st = "live")
           /\ capacity > 0 => heap[ptr].size = capacity * elemSize

\* C14: a push that returns stores its value in slot L, the old length, makes
\* the length L + 1, drops nothing, and leaves get(i) as it was for every i < L
C14_PushWritesSlotLen ==
    [][(last'.op = "push" /\ last'.outcome = "ok")
          => /\ len' = len + 1
             /\ ReadOutcomes(heap', nullmem', ptr', len) = {Val(nextId, 0)}
             /\ \A i \in 0..(len - 1) : GetResult(i)' = GetResult(i)
             /\ drops' = drops]_vars

\* C15: a push made while length < capacity calls no allocator and keeps
\* capacity and the storage block; a push that grows makes one allocator call,
\* which hands out at most one block and releases at most one
C15_PushAllocatesOnlyToGrow ==
    [][/\ (status = "live" /\ last'.op = "push" /\ len < capacity)
            => /\ ~last'.grew
               /\ last'.calls = <<>>
               /\ capacity' = capacity
               /\ ptr' = ptr
               /\ AllocView(heap') = AllocView(heap)
       /\ (last'.op = "push" /\ last'.grew)
            => /\ Len(last'.calls) = 1
               /\ Cardinality({b \in Blocks : heap[b].st # "live" /\ heap'[b].st = "live"}) <= 1
               /\ Cardinality({b \in Blocks : heap'[b].rel > heap[b].rel}) <= 1
               /\ \A b \in Blocks : heap'[b].rel <= heap[b].rel + 1]_vars

C15_Witness ==
    /\ status = "live" /\ ctor = "with_capacity"
    /\ last.op = "push" /\ last.outcome = "ok" /\ ~last.grew
    /\ last.calls = <<>>
    /\ len = 2 /\ capacity = 2

\* what the growth policy prescribes for a full buffer of capacity c
Doubled(c) == IF c = 0 THEN 1 ELSE 2 * c

\* C16 as stated: every push grows the buffer if and only if length ==
\* capacity before it, to capacity 1 from 0 and to twice the capacity otherwise
C16_GrowsIffFull ==
    [][(status = "live" /\ last'.op = "push")
          => /\ (capacity' # capacity) <=> (len = capacity)
             /\ (capacity' # capacity) => capacity' = Doubled(capacity)]_vars

\* C16 amended: every push that does not panic on the size of the grown
\* layout grows the buffer if and only if length == capacity before it, to
\* capacity 1 from 0 and to twice the capacity otherwise
C16_GrowsIffFullUnlessOverflow ==
    [][(status = "live" /\ last'.op = "push" /\ last'.outcome # "panic")
          => /\ (capacity' # capacity) <=> (len = capacity)
             /\ (capacity' # capacity) => capacity' = Doubled(capacity)]_vars

C16_Witness ==
    /\ status = "live" /\ ctor = "with_capacity" /\ last.op = "push"
    /\ last.outcome = "ok" /\ last.grew /\ capacity = 4 /\ len = 3

\* C17: pop on a buffer of length L > 0 returns the value of slot L - 1, the
\* last value pushed and not yet popped as get_mut left it, makes the length
\* L - 1 and changes neither capacity, the storage block nor any slot
C17_PopReturnsLast ==
    [][(status = "live" /\ len > 0 /\ last'.op = "pop")
          => /\ last'.outcome = "ok"
             /\ last'.ret = RawCell(heap, nullmem, ptr, len - 1)
             /\ abs # <<>> /\ last'.ret = abs[Len(abs)]
             /\ len' = len - 1
             /\ UNCHANGED <<capacity, ptr, heap, nullmem>>]_vars

\* the live slots, those below length, that hold value i
SlotsHolding(i) ==
    {j \in 0..(len - 1) : RawCell(heap, nullmem, ptr, j).k = "val"
                          /\ RawCell(heap, nullmem, ptr, j).id = i}

\* C18: every pushed value has one owner: exactly one live slot holds it, or
\* pop has moved it out and then no live slot holds it and the buffer never
\* drops it
C18_SingleOwner ==
    /\ status = "live"
         => \A i \in pushed :
               Cardinality(SlotsHolding(i)) = IF i \in moved THEN 0 ELSE 1
    /\ \A i \in moved : drops[i] = 0

C20_RefinesSequence ==
    [][(ctor = "new" /\ status = "live") =>
          /\ (last'.op = "len") => last'.num = Len(abs)
          /\ (last'.op = "pop") =>
                /\ last'.outcome = "ok"
                /\ last'.ret = IF abs = <<>> THEN None ELSE abs[Len(abs)]
          /\ (last'.op = "get") =>
                /\ last'.outcome = "ok"
                /\ last'.ret = IF last'.arg + 1 \in DOMAIN abs
                               THEN abs[last'.arg + 1] ELSE None
          /\ (last'.op = "get_mut") =>
                /\ last'.outcome = "ok"
                /\ last'.ret = IF last'.arg + 1 \in DOMAIN abs'
                               THEN abs'[last'.arg + 1] ELSE None
          /\ (last'.op = "push" /\ last'.outcome # "panic") =>
                /\ last'.outcome = "ok"
                /\ len' = Len(abs')
                /\ (phase' = "pushing" /\ pushed' = {1, 2, 3}) =>
                      (capacity' = 4 /\ len' = 3)]_vars

\* C21: destruction drops the elements of [0, length) from the last slot
\* down to the first, all of them before the block is released, and releases
\* the block exactly when capacity > 0; with capacity 0 it drops nothing and
\* calls no allocator function
C21_DropThenRelease ==
    [][(status = "live" /\ last'.op = "drop") =>
          /\ last'.outcome = "ok"
          /\ last'.dropSeq = [j \in 1..len |-> RawCell(heap, nullmem, ptr, len - j)]
          /\ \A j \in 1..len : last'.dropSeq[j].k = "val"
          /\ (capacity > 0) <=> (Len(last'.calls) = 1)
          /\ (capacity > 0) =>
                /\ last'.calls[1].fn = "dealloc"
                /\ last'.calls[1].ptr = ptr
                /\ ptr \in Blocks
                /\ heap[ptr].st = "live"
                /\ heap'[ptr].st = "freed"
          /\ (capacity = 0) =>
                /\ last'.dropSeq = <<>>
                /\ drops' = drops
                /\ heap' = heap]_vars

\* the least k with 2^k >= n
RECURSIVE CeilLog2(_)
CeilLog2(n) == IF n <= 1 THEN 0 ELSE 1 + CeilLog2((n + 1) \div 2)

C23_SlotsBelowLenAreLive ==
    [][/\ (status' = "live") =>
            \A i \in 0..(len' - 1) :
               /\ RawCell(heap', nullmem', ptr', i).k = "val"
               /\ RawCell(heap', nullmem', ptr', i).id \in pushed' \ moved'
       /\ (status = "live" /\ last'.op = "push") =>
            \/ /\ last'.outcome = "ok"
               /\ len' = len + 1
               /\ RawCell(heap', nullmem', ptr', len) = Val(nextId, 0)
            \/ /\ last'.outcome # "ok"
               /\ len' = len]_vars

\* C24: no call reads, drops or hands out a reference to a slot in
\* [length, capacity), length and capacity taken when the call starts; pop
\* and the destructor's loop read only slots below that length
C24_NoReadAtOrAboveLen ==
    [][(status = "live") =>
          /\ last'.reads \cap (len..(capacity - 1)) = {}
          /\ (last'.op \in {"pop", "drop"}) => last'.reads \subseteq 0..(len - 1)
          /\ (last'.op = "drop") => Len(last'.dropSeq) <= len]_vars

C24_Witness ==
    /\ last.op = "pop" /\ last.outcome = "ok" /\ last.reads = {len}
    /\ len + 1 < capacity /\ ptr \in Blocks

\* C25: whatever the buffer passes to realloc or dealloc is its own block,
\* the one the allocator last returned to it and still live, with the size it
\* was allocated with, capacity * size_of::<T>(); the placeholder pointer of a
\* buffer without capacity is never passed
C25_ReleasesOwnBlock ==
    [][(status = "live") =>
          \A j \in 1..Len(last'.calls) :
             (last'.calls[j].fn \in {"realloc", "dealloc"}) =>
                /\ last'.calls[j].ptr # DANGLING
                /\ last'.calls[j].ptr = ptr
                /\ ptr \in Blocks
                /\ heap[ptr].st = "live"
                /\ last'.calls[j].old = heap[ptr].size
                /\ last'.calls[j].old = capacity * elemSize]_vars

\* C26: a store through get_mut(i), i < length, changes slot i and nothing
\* else (length, capacity, the block and every other slot stay), and a later
\* get(i), or the pop that removes slot i, returns the stored value
C26_GetMutWritesInPlace ==
    [][(status = "live") =>
          /\ (last'.op = "get_mut" /\ last'.arg < len) =>
                /\ last'.outcome = "ok"
                /\ UNCHANGED <<len, capacity, ptr>>
                /\ RawCell(heap', nullmem', ptr', last'.arg)
                      = Val(RawCell(heap, nullmem, ptr, last'.arg).id, 1)
                /\ \A j \in 0..(len - 1) :
                      j # last'.arg =>
                         RawCell(heap', nullmem', ptr', j) = RawCell(heap, nullmem, ptr, j)
          /\ (last'.op = "get" /\ last'.arg + 1 \in DOMAIN abs /\ abs[last'.arg + 1].v = 1) =>
                last'.ret = abs[last'.arg + 1]
          /\ (last'.op = "pop" /\ abs # <<>> /\ abs[Len(abs)].v = 1) =>
                last'.ret = abs[Len(abs)]]_vars

C28_RequestsAreNonZero ==
    [][\A j \in 1..Len(last'.calls) :
          (last'.calls[j].fn \in {"alloc", "realloc"}) => last'.calls[j].new > 0]_vars

\* C29: push(v) followed at once by pop() returns v and leaves length and
\* the slots below it as they were before the push; capacity never shrinks;
\* a push right after a pop on a non-empty buffer does not grow
C29_PushThenPop ==
    [][(status = "live") =>
          /\ (last'.op = "push" /\ last'.outcome # "panic") =>
                /\ last'.outcome = "ok"
                /\ len' = len + 1
                /\ capacity' >= capacity
                /\ \A i \in 0..(len - 1) :
                      RawCell(heap', nullmem', ptr', i) = RawCell(heap, nullmem, ptr, i)
          /\ (last.op = "push" /\ last.outcome = "ok" /\ last'.op = "pop") =>
                /\ last'.outcome = "ok"
                /\ last'.ret = Val(last.arg, 0)
                /\ len' = len - 1
                /\ UNCHANGED <<capacity, ptr, heap, nullmem>>
          /\ (last.op = "pop" /\ last.outcome = "ok" /\ last.ret # None
                /\ last'.op = "push") => ~last'.grew]_vars

\* the slots below length l as the buffer sees them
View(h, nm, p, l) == [i \in 1..l |-> RawCell(h, nm, p, i - 1)]

\* what reading a cell of a block gives
Observed(c) == IF c.k = "uninit" THEN Garbage ELSE c

\* C30: what len, capacity, get, pop and the destructor's drops give does not
\* depend on where the allocator puts the block: a growing push leaves the
\* same length, capacity and slots whether realloc extends the block in place
\* or moves it, and every result is read off length, capacity and those slots
C30_AllocatorIndependent ==
    [][(status = "live") =>
          /\ (/\ last'.op = "push" /\ last'.grew
              /\ last'.calls[1].fn = "realloc"
              /\ last'.calls[1].ptr \in Blocks
              /\ last'.calls[1].ret \in Blocks) =>
                /\ last'.outcome = "ok"
                /\ len' = len + 1
                /\ capacity' = Doubled(capacity)
                /\ drops' = drops
                /\ View(heap', nullmem', ptr', len')
                      = Append(View(heap, nullmem, ptr, len), Val(nextId, 0))
          /\ (last'.op = "len") => last'.num = len
          /\ (last'.op = "capacity") => last'.num = capacity
          /\ (ptr \in Blocks /\ last'.op = "get" /\ last'.arg < len) =>
                last'.ret = Observed(View(heap, nullmem, ptr, len)[last'.arg + 1])
          /\ (ptr \in Blocks /\ last'.op = "pop" /\ len > 0) =>
                last'.ret = Observed(View(heap, nullmem, ptr, len)[len])
          /\ (ptr \in Blocks /\ last'.op = "drop" /\ capacity > 0) =>
                last'.dropSeq
                   = [j \in 1..len |-> Observed(View(heap, nullmem, ptr, len)[len + 1 - j])]]_vars

C30_Witness ==
    /\ status = "live" /\ last.op = "push" /\ last.outcome = "ok" /\ last.grew
    /\ last.calls[1].fn = "realloc"
    /\ last.calls[1].ptr \in Blocks
    /\ last.calls[1].ret \in Blocks
    /\ last.calls[1].ret # last.calls[1].ptr
    /\ len = 3
    /\ View(heap, nullmem, ptr, len) = <<Val(1, 0), Val(2, 0), Val(3, 0)>>

====
